---------------------------- MODULE Spec2Model ----------------------------
(***************************************************************************)
(* bincmp (src/src/main.rs): two files are read in lockstep, chunk by      *)
(* chunk; every byte pair the active classifier calls different is written *)
(* as one row into a TabWriter, which is flushed to standard output once,  *)
(* after the loop.  A length mismatch is noted on standard error.          *)
(*                                                                         *)
(* The state is main's locals (the two files and their cursors, the two    *)
(* buffers, n1, n2, offset, the TabWriter's pending lines), the two output *)
(* channels, main's position (pc) and its result (outcome).  Variables     *)
(* whose name starts with h_ are history variables: they record what the   *)
(* run did and are read by no guard.                                       *)
(*                                                                         *)
(* A text line is a sequence of cells (the TAB separated fields of one     *)
(* writeln!), a cell a sequence of one-character strings.  TabWriter's     *)
(* padding and right alignment only add spaces and are left out.           *)
(***************************************************************************)
EXTENDS Integers, Sequences, FiniteSets

VARIABLES
    file1, file2,         \* contents of args.file1, args.file2 (never written)
    format,               \* args.format
    bitflip_only,         \* args.single_bitflip_only
    pos1, pos2,           \* read cursors of f1, f2
    buffer1, buffer2,     \* the two [u8; BUFFER_SIZE] arrays
    n1, n2,               \* results of the last f1.read, f2.read
    offset,               \* main's offset
    tw,                   \* lines written into the TabWriter, not yet flushed
    out,                  \* lines that reached standard output
    err,                  \* notes that reached standard error
    pc,                   \* "header", "read1", "read2", "compare", "flush", "done"
    outcome,              \* "running", "Ok", "Err": what main returns
    h_rows,               \* every difference row written into tw so far
    h_calls,              \* every is_bitflipped call so far: [v1, v2, sub, ret]
    h_allFull,            \* every read so far returned min(BUFFER_SIZE, bytes left)
    h_readFailed,         \* some read returned Err
    h_flushes,            \* number of completed tw.flush() calls
    h_flushFailed,        \* tw.flush() returned Err
    h_mins,               \* min(n1, n2) of every iteration completed so far
    h_reads               \* number of read calls made so far

vars == <<file1, file2, format, bitflip_only, pos1, pos2, buffer1, buffer2, n1, n2,
          offset, tw, out, err, pc, outcome, h_rows, h_calls, h_allFull,
          h_readFailed, h_flushes, h_flushFailed, h_mins, h_reads>>

---------------------------------------------------------------------------
(* Bounds of the model.                                                    *)

\* The chunk size.  main.rs:53 sets it to 1024; the loop reads it only in
\* the comparison n < BUFFER_SIZE, the addition offset += BUFFER_SIZE and as
\* the buffers' capacity, so the model scales it down.
BUFFER_SIZE == 2

\* The longest file of the main specification: one chunk and a half, so
\* that a run has a second iteration, with a short or an empty read in it.
MaxLen == 3

\* Width of u8.
ByteBits == 8

\* The byte values the files of the main specification are made of:
\* 15 and 31 differ in one bit, 0 differs from both in several.
Bytes1 == {15, 31}
Bytes2 == {0, 15, 31}

AllBytes == 0..(2^ByteBits - 1)

Formats == {"Hex", "Decimal", "Binary", "Combined"}

Min(a, b) == IF a < b THEN a ELSE b

---------------------------------------------------------------------------
(* u8 arithmetic.                                                          *)

RECURSIVE BitXorW(_, _, _)
BitXorW(a, b, w) ==
    IF w = 0 THEN 0
    ELSE ((a + b) % 2) + 2 * BitXorW(a \div 2, b \div 2, w - 1)

RECURSIVE BitAndW(_, _, _)
BitAndW(a, b, w) ==
    IF w = 0 THEN 0
    ELSE ((a % 2) * (b % 2)) + 2 * BitAndW(a \div 2, b \div 2, w - 1)

\* v1 ^ v2 on u8
BitXor(a, b) == BitXorW(a, b, ByteBits)

\* a & b on u8
BitAnd(a, b) == BitAndW(a, b, ByteBits)

\* v - 1 on u8.  With v = 0 a debug build panics and a release build wraps
\* to 255; the wrapped value is what the expression yields where it yields
\* anything.
SubOne(v) == (v - 1) % (2^ByteBits)

---------------------------------------------------------------------------
(* is_bitflipped, main.rs:145-151.  The result records, beside the value   *)
(* returned, the operands v on which v - 1 was evaluated.                  *)

is_bitflipped_noguard(v1, v2) ==
    LET v == BitXor(v1, v2)
    IN  [ret |-> BitAnd(v, SubOne(v)) = 0, sub |-> {v}]

is_bitflipped_eval(v1, v2) ==
    LET v == BitXor(v1, v2)
    IN  IF v = 0
        THEN [ret |-> FALSE, sub |-> {}]
        ELSE [ret |-> BitAnd(v, SubOne(v)) = 0, sub |-> {v}]

is_bitflipped(v1, v2) == is_bitflipped_eval(v1, v2).ret

\* main.rs:128.  && and || short-circuit: is_bitflipped is called only
\* when bitflip_only is set.
is_diff_exact_only(bf, v1, v2) == v1 # v2

is_diff(bf, v1, v2) ==
    (bf /\ is_bitflipped(v1, v2)) \/ (~bf /\ v1 # v2)

---------------------------------------------------------------------------
(* Formatting, main.rs:70-71 and 131-138.                                  *)

Digit == <<"0", "1", "2", "3", "4", "5", "6", "7", "8", "9",
           "a", "b", "c", "d", "e", "f">>

RECURSIVE ToBase(_, _)
ToBase(n, b) ==
    IF n < b THEN <<Digit[n + 1]>>
    ELSE ToBase(n \div b, b) \o <<Digit[(n % b) + 1]>>

RECURSIVE PadLeft(_, _)
PadLeft(s, w) == IF Len(s) >= w THEN s ELSE PadLeft(<<"0">> \o s, w)

\* {:x}
fmt_x(n) == ToBase(n, 16)
\* {}
fmt_d(n) == ToBase(n, 10)
\* {:08b}
fmt_08b(n) == PadLeft(ToBase(n, 2), 8)

Header(fmt) ==
    IF fmt = "Combined"
    THEN << <<"O","F","F","S","E","T">>, <<"H","e","x">>,
            <<"F","I","L","E","1">>, <<"H","e","x">>,
            <<"F","I","L","E","2">>, <<"H","e","x">> >>
    ELSE << <<"O","F","F","S","E","T">>, <<"F","I","L","E","1">>,
            <<"F","I","L","E","2">> >>

Row(fmt, off, v1, v2) ==
    CASE fmt = "Binary"   -> <<fmt_x(off), fmt_08b(v1), fmt_08b(v2)>>
      [] fmt = "Hex"      -> <<fmt_x(off), fmt_x(v1), fmt_x(v2)>>
      [] fmt = "Decimal"  -> <<fmt_d(off), fmt_d(v1), fmt_d(v2)>>
      [] fmt = "Combined" -> <<fmt_d(off), fmt_x(off), fmt_d(v1), fmt_x(v1),
                               fmt_d(v2), fmt_x(v2)>>

---------------------------------------------------------------------------
(* compare_buffers, main.rs:115-143: the rows it writes, in order, and the *)
(* is_bitflipped calls it makes.                                           *)

RECURSIVE RowsFrom(_, _, _, _, _, _)
RowsFrom(i, b1, b2, buffer_offset, fmt, bf) ==
    IF i >= Len(b1) THEN <<>>
    ELSE LET v1 == b1[i + 1]
             v2 == b2[i + 1]
             off == buffer_offset + i
         IN  (IF is_diff(bf, v1, v2) THEN <<Row(fmt, off, v1, v2)>> ELSE <<>>)
             \o RowsFrom(i + 1, b1, b2, buffer_offset, fmt, bf)

compare_buffers_chunk_relative(b1, b2, buffer_offset, fmt, bf) ==
    RowsFrom(0, b1, b2, 0, fmt, bf)

compare_buffers(b1, b2, buffer_offset, fmt, bf) ==
    RowsFrom(0, b1, b2, buffer_offset, fmt, bf)

compare_calls(b1, b2, bf) ==
    IF bf
    THEN {[v1 |-> b1[i], v2 |-> b2[i],
           sub |-> is_bitflipped_eval(b1[i], b2[i]).sub,
           ret |-> is_bitflipped_eval(b1[i], b2[i]).ret] : i \in 1..Len(b1)}
    ELSE {}

---------------------------------------------------------------------------
(* File::read, main.rs:75-76.  A read at end of file returns 0; elsewhere  *)
(* it returns at least one byte and at most what the buffer holds and the  *)
(* file has left (Read::read may return fewer bytes than asked for).       *)

ReadSizes(file, pos) ==
    IF pos = Len(file) THEN {0}
    ELSE 1..Min(BUFFER_SIZE, Len(file) - pos)

\* The buffer after a read of k bytes at pos: the first k bytes are
\* overwritten, the rest keeps what it held.
Fill(buffer, file, pos, k) ==
    [i \in 1..BUFFER_SIZE |-> IF i <= k THEN file[pos + i] ELSE buffer[i]]

FullRead(file, pos, k) == k = Min(BUFFER_SIZE, Len(file) - pos)

\* &buffer[..n], main.rs:83-84
Slice(buffer, n) == SubSeq(buffer, 1, n)

\* if n < BUFFER_SIZE, main.rs:92
IsEOF_zero_only(n) == n = 0

IsEOF(n) == n < BUFFER_SIZE

\* match n1.cmp(&n2), main.rs:93-103: the notes written to standard error
Note_swapped(a, b) ==
    IF a < b THEN <<"first file is larger">>
    ELSE IF a > b THEN <<"second file is larger">>
    ELSE <<>>

Note_on_equal(a, b) ==
    IF a <= b THEN <<"second file is larger">>
    ELSE <<"first file is larger">>

Note(a, b) ==
    IF a < b THEN <<"second file is larger">>
    ELSE IF a > b THEN <<"first file is larger">>
    ELSE <<>>

\* offset += BUFFER_SIZE, main.rs:107
NextOffset_stuck(off) == off

NextOffset(off) == off + BUFFER_SIZE

---------------------------------------------------------------------------
(* The state after main.rs:56-67: both files open, buffers zeroed,         *)
(* offset 0, an empty TabWriter.                                           *)

Files1 == UNION {[1..l -> Bytes1] : l \in 0..MaxLen}
Files2 == UNION {[1..l -> Bytes2] : l \in 0..MaxLen}

Start(f1, f2, fmt, bf) ==
    /\ file1 = f1 /\ file2 = f2 /\ format = fmt /\ bitflip_only = bf
    /\ pos1 = 0 /\ pos2 = 0
    /\ buffer1 = [i \in 1..BUFFER_SIZE |-> 0]
    /\ buffer2 = [i \in 1..BUFFER_SIZE |-> 0]
    /\ n1 = 0 /\ n2 = 0
    /\ offset = 0
    /\ tw = <<>> /\ out = <<>> /\ err = <<>>
    /\ pc = "header" /\ outcome = "running"
    /\ h_rows = <<>> /\ h_calls = {}
    /\ h_allFull = TRUE /\ h_readFailed = FALSE
    /\ h_flushes = 0 /\ h_flushFailed = FALSE /\ h_mins = <<>> /\ h_reads = 0

Init ==
    \E f1 \in Files1, f2 \in Files2, fmt \in Formats, bf \in BOOLEAN :
        Start(f1, f2, fmt, bf)

\* Files told apart by their lengths only, for the control of the loop,
\* which reads no byte value: file 1 is all 15s, file 2 15s and 31s.
LengthInit ==
    \E f1 \in UNION {[1..l -> {15}] : l \in 0..MaxLen},
       f2 \in UNION {[1..l -> {15, 31}] : l \in 0..MaxLen},
       fmt \in Formats, bf \in BOOLEAN :
        Start(f1, f2, fmt, bf)

\* One-byte files over every byte value: the classifier on all of u8 x u8.
ByteInit ==
    \E a \in AllBytes, b \in AllBytes, bf \in BOOLEAN :
        Start(<<a>>, <<b>>, "Hex", bf)

---------------------------------------------------------------------------
(* main, main.rs:55-113.                                                   *)

inputs == <<file1, file2, format, bitflip_only>>

\* main.rs:69-72
WriteHeader ==
    /\ pc = "header"
    /\ tw' = Append(tw, Header(format))
    /\ pc' = "read1"
    /\ UNCHANGED <<inputs, pos1, pos2, buffer1, buffer2, n1, n2, offset, out, err,
                   outcome, h_rows, h_calls, h_allFull, h_readFailed, h_flushes,
                   h_flushFailed, h_mins, h_reads>>

\* The ? of main.rs:75-76 on Err: main returns the error and tw is dropped
\* unflushed.  TabWriter hands lines to the writer it wraps only in flush
\* (on its own account only after a line of a single cell, and every line
\* written here has at least three TABs), and it has no flush on drop.
Abort_retry ==
    /\ UNCHANGED <<pc, outcome, tw>>

Abort ==
    /\ pc' = "done"
    /\ outcome' = "Err"
    /\ tw' = <<>>

\* main.rs:75, Ok(n1)
Read1Ok ==
    /\ pc = "read1"
    /\ \E k \in ReadSizes(file1, pos1) :
        /\ n1' = k
        /\ buffer1' = Fill(buffer1, file1, pos1, k)
        /\ pos1' = pos1 + k
        /\ h_allFull' = (h_allFull /\ FullRead(file1, pos1, k))
    /\ h_reads' = h_reads + 1
    /\ pc' = "read2"
    /\ UNCHANGED <<inputs, pos2, buffer2, n2, offset, tw, out, err, outcome,
                   h_rows, h_calls, h_readFailed, h_flushes, h_flushFailed, h_mins>>

\* main.rs:75, Err
Read1Err ==
    /\ pc = "read1"
    /\ h_reads' = h_reads + 1
    /\ h_readFailed' = TRUE
    /\ Abort
    /\ UNCHANGED <<inputs, pos1, pos2, buffer1, buffer2, n1, n2, offset, out, err,
                   h_rows, h_calls, h_allFull, h_flushes, h_flushFailed, h_mins>>

\* main.rs:76, Ok(n2)
Read2Ok ==
    /\ pc = "read2"
    /\ \E k \in ReadSizes(file2, pos2) :
        /\ n2' = k
        /\ buffer2' = Fill(buffer2, file2, pos2, k)
        /\ pos2' = pos2 + k
        /\ h_allFull' = (h_allFull /\ FullRead(file2, pos2, k))
    /\ h_reads' = h_reads + 1
    /\ pc' = "compare"
    /\ UNCHANGED <<inputs, pos1, buffer1, n1, offset, tw, out, err, outcome,
                   h_rows, h_calls, h_readFailed, h_flushes, h_flushFailed, h_mins>>

\* main.rs:76, Err
Read2Err ==
    /\ pc = "read2"
    /\ h_reads' = h_reads + 1
    /\ h_readFailed' = TRUE
    /\ Abort
    /\ UNCHANGED <<inputs, pos1, pos2, buffer1, buffer2, n1, n2, offset, out, err,
                   h_rows, h_calls, h_allFull, h_flushes, h_flushFailed, h_mins>>

\* main.rs:78-107: the rest of one iteration
Iterate ==
    /\ pc = "compare"
    /\ LET n == Min(n1, n2)
           b1 == Slice(buffer1, n)
           b2 == Slice(buffer2, n)
           new == IF n # 0
                  THEN compare_buffers(b1, b2, offset, format, bitflip_only)
                  ELSE <<>>
       IN  /\ tw' = tw \o new
           /\ h_rows' = h_rows \o new
           /\ h_calls' = h_calls \cup
                  (IF n # 0 THEN compare_calls(b1, b2, bitflip_only) ELSE {})
           /\ h_mins' = Append(h_mins, n)
           /\ IF IsEOF(n)
              THEN /\ err' = err \o Note(n1, n2)
                   /\ pc' = "flush"
                   /\ offset' = offset
              ELSE /\ err' = err
                   /\ pc' = "read1"
                   /\ offset' = NextOffset(offset)
    /\ UNCHANGED <<inputs, pos1, pos2, buffer1, buffer2, n1, n2, out, outcome,
                   h_allFull, h_readFailed, h_flushes, h_flushFailed, h_reads>>

\* main.rs:110-112, flush Ok: every pending line goes to standard output
FlushOk_nothing ==
    /\ pc = "flush"
    /\ out' = out
    /\ tw' = tw
    /\ h_flushes' = h_flushes
    /\ outcome' = "Ok"
    /\ pc' = "done"
    /\ UNCHANGED <<inputs, pos1, pos2, buffer1, buffer2, n1, n2, offset, err,
                   h_rows, h_calls, h_allFull, h_readFailed, h_flushFailed, h_mins,
                   h_reads>>

FlushOk ==
    /\ pc = "flush"
    /\ out' = out \o tw
    /\ tw' = <<>>
    /\ h_flushes' = h_flushes + 1
    /\ outcome' = "Ok"
    /\ pc' = "done"
    /\ UNCHANGED <<inputs, pos1, pos2, buffer1, buffer2, n1, n2, offset, err,
                   h_rows, h_calls, h_allFull, h_readFailed, h_flushFailed, h_mins,
                   h_reads>>

\* main.rs:110, flush Err: standard output failed after some of the lines
FlushErr ==
    /\ pc = "flush"
    /\ \E k \in 0..Len(tw) : out' = out \o SubSeq(tw, 1, k)
    /\ tw' = <<>>
    /\ outcome' = "Err"
    /\ pc' = "done"
    /\ h_flushFailed' = TRUE
    /\ UNCHANGED <<inputs, pos1, pos2, buffer1, buffer2, n1, n2, offset, err,
                   h_rows, h_calls, h_allFull, h_readFailed, h_flushes, h_mins,
                   h_reads>>

Next ==
    \/ WriteHeader
    \/ Read1Ok
    \/ Read1Err
    \/ Read2Ok
    \/ Read2Err
    \/ Iterate
    \/ FlushOk
    \/ FlushErr

Spec == Init /\ [][Next]_vars

\* main is one sequential thread: a step that can be taken is taken.
FairSpec == LengthInit /\ [][Next]_vars /\ WF_vars(Next)

ByteSpec == ByteInit /\ [][Next]_vars

---------------------------------------------------------------------------
(* What the properties are stated with: the rows read back from their      *)
(* text, and the differences of the two files.                             *)

DigitVal(c) == CHOOSE d \in 0..15 : Digit[d + 1] = c

RECURSIVE FromBase(_, _)
FromBase(s, b) ==
    IF Len(s) = 0 THEN 0
    ELSE FromBase(SubSeq(s, 1, Len(s) - 1), b) * b + DigitVal(s[Len(s)])

\* A row read back: the offset and the two values its columns spell.
ParseRow(fmt, r) ==
    CASE fmt = "Binary"   -> [offset |-> FromBase(r[1], 16),
                              v1 |-> FromBase(r[2], 2), v2 |-> FromBase(r[3], 2)]
      [] fmt = "Hex"      -> [offset |-> FromBase(r[1], 16),
                              v1 |-> FromBase(r[2], 16), v2 |-> FromBase(r[3], 16)]
      [] fmt = "Decimal"  -> [offset |-> FromBase(r[1], 10),
                              v1 |-> FromBase(r[2], 10), v2 |-> FromBase(r[3], 10)]
      [] fmt = "Combined" -> [offset |-> FromBase(r[1], 10),
                              v1 |-> FromBase(r[3], 10), v2 |-> FromBase(r[5], 10)]

\* The row has its format's columns, and the combined format's hexadecimal
\* columns spell the same numbers as its decimal ones.
WellFormed(fmt, r) ==
    IF fmt = "Combined"
    THEN /\ Len(r) = 6
         /\ FromBase(r[2], 16) = FromBase(r[1], 10)
         /\ FromBase(r[4], 16) = FromBase(r[3], 10)
         /\ FromBase(r[6], 16) = FromBase(r[5], 10)
    ELSE /\ Len(r) = 3
         /\ (fmt = "Binary" => Len(r[2]) = 8 /\ Len(r[3]) = 8)

ParsedRows == [k \in 1..Len(h_rows) |-> ParseRow(format, h_rows[k])]

Overlap == Min(Len(file1), Len(file2))

\* Number of bit positions in which two bytes differ: popcount(a XOR b).
Hamming(a, b) ==
    Cardinality({k \in 0..(ByteBits - 1) :
                    ((a \div 2^k) % 2) # ((b \div 2^k) % 2)})

\* What the active mode calls a difference, from its definition.
Differs(bf, a, b) == IF bf THEN Hamming(a, b) = 1 ELSE a # b

RECURSIVE DiffsFrom(_, _)
DiffsFrom(i, limit) ==
    IF i >= limit THEN <<>>
    ELSE (IF Differs(bitflip_only, file1[i + 1], file2[i + 1])
          THEN <<[offset |-> i, v1 |-> file1[i + 1], v2 |-> file2[i + 1]]>>
          ELSE <<>>)
         \o DiffsFrom(i + 1, limit)

\* The differences of the two files over their common length, by offset.
ExpectedDiffs == DiffsFrom(0, Overlap)

\* Offsets (0-based) below the common length at which the files' bytes are unequal.
UnequalAt == {i \in 0..(Overlap - 1) : file1[i + 1] # file2[i + 1]}

LoopOver == pc \in {"flush", "done"}

\* Every read of the run succeeded and returned min(BUFFER_SIZE, bytes left).
CleanReads == h_allFull /\ ~h_readFailed

RECURSIVE SumSeq(_)
SumSeq(s) == IF Len(s) = 0 THEN 0 ELSE s[1] + SumSeq(Tail(s))

---------------------------------------------------------------------------
(* C1: with reads that return min(BUFFER_SIZE, bytes left), the rows        *)
(* written over the whole run are exactly the offsets below min(L1, L2) at *)
(* which the active classifier is true, each with its offset and the two   *)
(* bytes, in increasing offset order, none twice, none missing.            *)
C1_RowsAreExactlyTheDifferences ==
    (LoopOver /\ CleanReads) =>
        /\ ParsedRows = ExpectedDiffs
        /\ \A k \in 1..Len(h_rows) : WellFormed(format, h_rows[k])
        /\ \A j, k \in 1..Len(h_rows) :
               j < k => ParsedRows[j].offset < ParsedRows[k].offset

\* A finished run in single-bit-flip mode with a row from each of two
\* chunks and an unequal pair that was skipped.
C1_Witness ==
    /\ pc = "done" /\ outcome = "Ok" /\ CleanReads
    /\ bitflip_only
    /\ Len(h_rows) = 2
    /\ ParsedRows[1].offset < BUFFER_SIZE
    /\ ParsedRows[2].offset >= BUFFER_SIZE
    /\ Cardinality(UnequalAt) = 3

(* C2: is_bitflipped(a, b) is true exactly when a XOR b has one bit set,   *)
(* for every a, b in 0..255; every pair is classified by the run over the  *)
(* one-byte files <<a>>, <<b>>.                                            *)
C2_BitflipIffOneBit ==
    /\ \A c \in h_calls : c.ret = (Hamming(c.v1, c.v2) = 1)
    /\ (LoopOver /\ bitflip_only /\ ~h_readFailed) =>
           \E c \in h_calls : c.v1 = file1[1] /\ c.v2 = file2[1]

\* A pair that differs in the top bit only was classified as a bit flip.
C2_Witness ==
    \E c \in h_calls : c.v1 = 255 /\ c.v2 = 127 /\ c.ret

(* C10: is_bitflipped never evaluates v - 1 with v = 0: for identical      *)
(* bytes it returns false before the subtraction, and every operand of the *)
(* subtraction is in 1..255, so v - 1 stays in 0..254.                     *)
C10_NoUnderflow ==
    \A c \in h_calls :
        /\ 0 \notin c.sub
        /\ \A v \in c.sub : v \in 1..(2^ByteBits - 1) /\ SubOne(v) = v - 1
        /\ (c.v1 = c.v2) => (c.sub = {} /\ c.ret = FALSE)

\* is_bitflipped was called on two identical bytes.
C10_Witness ==
    \E c \in h_calls : c.v1 = 200 /\ c.v2 = 200 /\ c.sub = {}

(* C3 as stated: two files of equal length that differ at offset k and     *)
(* nowhere else give exactly one row, with offset k and the two bytes at   *)
(* k, in whichever mode.  (Read here on runs whose reads all succeed and   *)
(* are full, so that only the mode decides.)                               *)
OnlyDifferenceAt(k) == Len(file1) = Len(file2) /\ UnequalAt = {k}

RowAt(k) == [offset |-> k, v1 |-> file1[k + 1], v2 |-> file2[k + 1]]

C3_AsStated ==
    \A k \in 0..(Overlap - 1) :
        (LoopOver /\ CleanReads /\ OnlyDifferenceAt(k)) =>
            ParsedRows = <<RowAt(k)>>

(* C3 amended: such a run never writes any row but the one for k; when its *)
(* reads all succeed and are full it writes that row if the mode is exact  *)
(* inequality or the two bytes at k differ in exactly one bit, and no row  *)
(* at all in single-bit-flip mode when they differ in several bits.        *)
C3_OneRowUnlessMultiBit ==
    \A k \in 0..(Overlap - 1) :
        OnlyDifferenceAt(k) =>
            /\ ParsedRows \in {<<>>, <<RowAt(k)>>}
            /\ (LoopOver /\ CleanReads) =>
                   ParsedRows =
                       IF ~bitflip_only \/ Hamming(file1[k + 1], file2[k + 1]) = 1
                       THEN <<RowAt(k)>>
                       ELSE <<>>

\* A finished single-bit-flip run over two files whose only difference, in
\* the second chunk, is in several bits: nothing was reported.
C3_Witness ==
    /\ pc = "done" /\ outcome = "Ok" /\ CleanReads
    /\ bitflip_only
    /\ BUFFER_SIZE < Overlap
    /\ OnlyDifferenceAt(BUFFER_SIZE)
    /\ Hamming(file1[BUFFER_SIZE + 1], file2[BUFFER_SIZE + 1]) > 1
    /\ h_rows = <<>>

(* C4: when file 1 is shorter than file 2 and equal to its beginning, and  *)
(* every read returns min(BUFFER_SIZE, bytes left), no row is written, the *)
(* only note ever written is "second file is larger", written exactly once *)
(* by the end of the loop, the run is never stuck before its end, and it   *)
(* ends in Ok unless standard input or output failed.                      *)
ShorterFirstSamePrefix == Len(file1) < Len(file2) /\ UnequalAt = {}

C4_SecondLargerNote ==
    (ShorterFirstSamePrefix /\ h_allFull) =>
        /\ h_rows = <<>>
        /\ err \in {<<>>, <<"second file is larger">>}
        /\ (LoopOver /\ ~h_readFailed) => err = <<"second file is larger">>
        /\ (pc = "done" /\ ~h_readFailed /\ ~h_flushFailed) =>
               (outcome = "Ok" /\ Len(out) = 1)
        /\ (pc # "done") => ENABLED Next

\* Such a run, finished, with a first file of exactly one chunk.
C4_Witness ==
    /\ pc = "done" /\ outcome = "Ok" /\ h_allFull
    /\ ShorterFirstSamePrefix
    /\ Len(file1) = BUFFER_SIZE
    /\ err = <<"second file is larger">>

(* C5 as stated: two identical files give no row and no note.              *)
C5_AsStated ==
    (file1 = file2) => (h_rows = <<>> /\ err = <<>>)

(* C5 amended: two identical files give no row; and they give no note as   *)
(* long as every read returns min(BUFFER_SIZE, bytes left).                *)
C5_IdenticalFilesQuiet ==
    (file1 = file2) => (h_rows = <<>> /\ (h_allFull => err = <<>>))

\* A finished run over two identical files of exactly one chunk.
C5_Witness ==
    /\ pc = "done" /\ outcome = "Ok" /\ h_allFull
    /\ file1 = file2
    /\ Len(file1) = BUFFER_SIZE
    /\ bitflip_only /\ format = "Combined"
    /\ err = <<>>

(* C6 as stated: after a failed read the run has ended in failure and the  *)
(* rows written in earlier iterations are in standard output.              *)
C6_AsStated ==
    h_readFailed =>
        /\ pc = "done" /\ outcome = "Err"
        /\ \A k \in 1..Len(h_rows) : \E j \in 1..Len(out) : out[j] = h_rows[k]

(* C6 amended: after a failed read the run has ended in failure and takes  *)
(* no further step (no read, no comparison, no flush); standard output     *)
(* holds nothing: the header and the rows of earlier iterations were only  *)
(* pending in the TabWriter, which is dropped unflushed.                   *)
C6_ReadFailureAborts ==
    h_readFailed =>
        /\ pc = "done" /\ outcome = "Err"
        /\ ~ENABLED Next
        /\ out = <<>> /\ h_flushes = 0 /\ tw = <<>>

\* A read failed in the second iteration, after the first wrote a row.
C6_Witness ==
    /\ h_readFailed
    /\ Len(h_mins) = 1
    /\ Len(h_rows) >= 1

(* C7: a run that ends in Ok has flushed exactly once, and standard output *)
(* is the header row followed by every row written during the loop; while  *)
(* the run has not ended nothing is flushed and standard output is empty.  *)
IsHeader(line) ==
    /\ Len(line) = (IF format = "Combined" THEN 6 ELSE 3)
    /\ line[1] = <<"O", "F", "F", "S", "E", "T">>

C7_FlushedOnceAfterLoop ==
    /\ (outcome = "Ok") =>
           /\ pc = "done" /\ h_flushes = 1 /\ tw = <<>>
           /\ Len(out) = 1 + Len(h_rows)
           /\ IsHeader(out[1])
           /\ Tail(out) = h_rows
           /\ \A k \in 1..Len(h_rows) : ~IsHeader(h_rows[k])
    /\ (pc # "done") => (out = <<>> /\ h_flushes = 0)
    /\ h_flushes <= 1

\* A run that ended in Ok with the header and two rows in standard output.
C7_Witness ==
    outcome = "Ok" /\ Len(out) = 3 /\ Len(h_rows) = 2

(* C8: at the start of every iteration offset is the sum of the chunk      *)
(* lengths compared so far and the number of bytes consumed from each      *)
(* stream; offset never decreases; every row carries the absolute offset   *)
(* of the bytes it shows, and a difference at offset BUFFER_SIZE is        *)
(* reported with offset BUFFER_SIZE.                                       *)
C8_Inv ==
    /\ (pc = "read1") =>
           (offset = SumSeq(h_mins) /\ offset = pos1 /\ offset = pos2)
    /\ \A k \in 1..Len(h_rows) :
           LET r == ParsedRows[k]
           IN  /\ r.offset < Overlap
               /\ r.v1 = file1[r.offset + 1]
               /\ r.v2 = file2[r.offset + 1]
    /\ (/\ LoopOver /\ CleanReads
        /\ BUFFER_SIZE < Overlap
        /\ Differs(bitflip_only, file1[BUFFER_SIZE + 1], file2[BUFFER_SIZE + 1]))
           => \E k \in 1..Len(h_rows) : ParsedRows[k] = RowAt(BUFFER_SIZE)

C8_OffsetTracksTheStreams == [](C8_Inv) /\ [][offset' >= offset]_vars

\* A finished run that reported a difference at offset BUFFER_SIZE.
C8_Witness ==
    /\ pc = "done" /\ outcome = "Ok"
    /\ offset = BUFFER_SIZE
    /\ \E k \in 1..Len(h_rows) : ParsedRows[k].offset = BUFFER_SIZE

(* C9: every iteration before the last compared a full chunk, and the loop *)
(* is over as soon as an iteration has min(n1, n2) < BUFFER_SIZE; from     *)
(* then on no read is made and no cursor moves; and every run ends.        *)
ShortSeen == h_mins # <<>> /\ h_mins[Len(h_mins)] < BUFFER_SIZE

C9_Inv ==
    /\ \A k \in 1..(Len(h_mins) - 1) : h_mins[k] = BUFFER_SIZE
    /\ ShortSeen => LoopOver
    /\ (LoopOver /\ ~h_readFailed) => ShortSeen

C9_FirstShortReadEndsLoop ==
    /\ [](C9_Inv)
    /\ [][ShortSeen =>
            (h_reads' = h_reads /\ pos1' = pos1 /\ pos2' = pos2 /\ h_mins' = h_mins)]_vars
    /\ <>(pc = "done")

\* The loop ended on a short read of stream 2 that was not at end of file:
\* both streams have bytes left that were never read.
C9_Witness ==
    /\ pc = "done" /\ outcome = "Ok"
    /\ ~h_allFull
    /\ n1 = BUFFER_SIZE /\ n2 \in 1..(BUFFER_SIZE - 1)
    /\ pos1 < Len(file1) /\ pos2 < Len(file2)

=============================================================================
